---- MODULE Spec2Model ----
(***************************************************************************)
(* Model of mpf.core.switch_controller.SwitchController.                   *)
(*                                                                         *)
(* Time is counted in ticks, TicksPerMs ticks to a millisecond, so that    *)
(* the rounding done by ms_since_change is a real conversion.  The         *)
(* controller runs in a single-threaded loop: every action below is one    *)
(* complete call of a public method or of a clock callback, including the  *)
(* handler and monitor callbacks it invokes.                               *)
(***************************************************************************)
EXTENDS Integers, Sequences, FiniteSets, TLC

\* ---------------------------------------------------------------- bounds
TicksPerMs == 2          \* clock resolution of the model
MaxTime == 6             \* last clock reading (ticks)
DwellMs == 2             \* dwell of the timed handlers (ms)
ShortMs == 1             \* dwell of the timed handlers with a shorter dwell (ms)
RecycleTicks == 3        \* recycle_secs of a switch that has a recycle window
MaxJitter == 2           \* cap on recycle_jitter_count
MaxReg == 3              \* cap on the length of one registry bucket
MaxPend == 3             \* cap on the number of pendings in the timed queue
CallsCap == 2            \* the invocation counter saturates here

SentinelSecs == 100000   \* set_state(reset_time=True): timestamp = -100000
Sentinel == -(SentinelSecs * 1000 * TicksPerMs)
NoTimer == -1            \* "no clock callback scheduled"

\* ------------------------------------------------- configured machine
Switches == {"a", "b"}
HwNumber == [a |-> 1, b |-> 2]       \* switch.hw_switch.number
UnknownNum == Cardinality(Switches) + 1   \* a number no configured switch has
UnknownName == "nope"                     \* a name no configured switch has

\* Handler callbacks; each is registered for a fixed (switch, state, ms).
\* HandlerIds are the handlers whose invocations the history counts: h1..h5
\* only record that they ran; h6 calls process_switch("b", 1, logical=True)
\* from inside its callback.  The other handlers of HandlerSpec:
\*   h7         calls process_switch("b", 1, logical=True), after a dwell
\*   h8, h9     plain dwell handlers of switch "b"
\*   h10        removes h3 and h1 with remove_switch_handler
\*   h11        adds h3 and h1 with add_switch_handler
\*   h12        plain
\*   h13        plain, registered and removed under the spelling "A"
HandlerIds == {"h1", "h2", "h3", "h4", "h5", "h6"}
HandlerSpec ==
    [h1 |-> [switch_name |-> "a", state |-> 1, ms |-> DwellMs],
     h2 |-> [switch_name |-> "a", state |-> 1, ms |-> DwellMs],
     h3 |-> [switch_name |-> "a", state |-> 1, ms |-> 0],
     h4 |-> [switch_name |-> "a", state |-> 0, ms |-> 0],
     h5 |-> [switch_name |-> "a", state |-> 0, ms |-> DwellMs],
     h6 |-> [switch_name |-> "a", state |-> 1, ms |-> 0],
     h7 |-> [switch_name |-> "a", state |-> 1, ms |-> ShortMs],
     h8 |-> [switch_name |-> "b", state |-> 1, ms |-> ShortMs],
     h9 |-> [switch_name |-> "b", state |-> 0, ms |-> DwellMs],
     h10 |-> [switch_name |-> "a", state |-> 1, ms |-> 0],
     h11 |-> [switch_name |-> "a", state |-> 1, ms |-> 0],
     h12 |-> [switch_name |-> "a", state |-> 1, ms |-> 0],
     h13 |-> [switch_name |-> "A", state |-> 1, ms |-> DwellMs]]

\* Monitor callbacks.  m1 only observes; m2 is a one-shot observer that
\* calls remove_monitor on itself from inside its callback.
MonitorIds == {"m1", "m2"}

\* The callbacks wait_for_any_switch creates: partial(self._wait_handler, ...)
\* objects, one per listed switch, each equal only to itself.
WaitIds == {"w1", "w2"}
WaitId(i) == IF i = 1 THEN "w1" ELSE "w2"

VARIABLES
    now,          \* machine.clock.get_time(), in ticks
    invert,       \* switch.invert, per switch
    recycle_secs, \* switch.recycle_secs, per switch (ticks)
    dev,          \* switch device: state, hw_state, recycle_clear_time, recycle_jitter_count
    switches,     \* self.switches: name -> SwitchState(state, time)
    registered,   \* self.registered_switches: <<name, state>> -> list of RegisteredSwitch
    timed,        \* self.active_timed_switches, buckets in insertion order
    wake,         \* deadline of self._timed_switch_handler_delay, or NoTimer
    retries,      \* scheduled _recycle_passed calls
    monitors,     \* self.monitors
    future,       \* the asyncio.Future returned by wait_for_any_switch
    wire,         \* history: <<physical level of the most recent external input>>, <<>> before the first
    lastAct,      \* history: <<time of the last accepted activation>> of a switch with a recycle window
    calls,        \* history: invocations of a handler since the last accepted transition of its switch
    lastEv        \* history: what the last step did

vars == <<now, invert, recycle_secs, dev, switches, registered, timed, wake,
          retries, monitors, future, wire, lastAct, calls, lastEv>>

\* ---------------------------------------------------------------- helpers
Xor(x, y) == IF x = y THEN 0 ELSE 1
B2I(b) == IF b THEN 1 ELSE 0
RemoveAt(s, i) == SubSeq(s, 1, i - 1) \o SubSeq(s, i + 1, Len(s))
Range(s) == {s[i] : i \in 1..Len(s)}
\* list.remove(x): drop the first element equal to x
RemoveFirst(s, x) ==
    IF \E i \in 1..Len(s) : s[i] = x
    THEN RemoveAt(s, CHOOSE i \in 1..Len(s) : s[i] = x /\ \A j \in 1..(i - 1) : s[j] # x)
    ELSE s
Count(s, x) == Cardinality({i \in 1..Len(s) : s[i] = x})
SetMin(S) == CHOOSE x \in S : \A y \in S : x <= y

\* Python 3 round(x, 0) of x = n / d for n >= 0: round half to even.
RoundDiv(n, d) ==
    LET q == n \div d
        r == n % d
    IN  IF 2 * r < d THEN q
        ELSE IF 2 * r > d THEN q + 1
        ELSE IF q % 2 = 0 THEN q ELSE q + 1

\* The controller's mutable state as one record, threaded through the
\* operators below; fired and mons log the callbacks invoked by the call, acc
\* the transitions it wrote to the store, callback the handler it was given,
\* raw the switch states it read from the platform.
Ctl == [dev |-> dev, switches |-> switches, registered |-> registered,
        timed |-> timed, wake |-> wake, retries |-> retries,
        monitors |-> monitors, future |-> future,
        fired |-> <<>>, mons |-> <<>>, acc |-> <<>>, callback |-> "", raw |-> <<>>,
        outcome |-> "none", state |-> 0, hw |-> 0]

\* CaseInsensitiveDict: the key a name is stored and looked up under.
Lower(name) == IF name = "A" THEN "a" ELSE name

\* ------------------------------------------------------------ state store
ms_since_change(c, switch_name) ==
    RoundDiv(now - c.switches[Lower(switch_name)].time, TicksPerMs)

\* set_state that forgets to stamp the time of the change
set_state_keeps_time(c, switch_name, state, reset_time) ==
    [c EXCEPT !.switches[switch_name] =
        [state |-> state, time |-> c.switches[switch_name].time]]

set_state(c, switch_name, state, reset_time) ==
    [c EXCEPT !.switches[switch_name] =
        [state |-> state, time |-> IF reset_time THEN Sentinel ELSE now]]

is_state(c, switch_name, state, ms) ==
    c.switches[Lower(switch_name)].state = state /\ ms <= ms_since_change(c, switch_name)

is_active(c, switch_name, ms) == is_state(c, switch_name, 1, ms)

is_inactive(c, switch_name, ms) == is_state(c, switch_name, 0, ms)

\* ------------------------------------------------------------ timed queue
BucketIndex(t, key) ==
    IF \E i \in 1..Len(t) : t[i].key = key
    THEN CHOOSE i \in 1..Len(t) : t[i].key = key
    ELSE 0

get_next_timed_switch_event(t) == SetMin({t[i].key : i \in 1..Len(t)})

_add_timed_switch_handler(c, key, entry) ==
    LET i == BucketIndex(c.timed, key)
        t2 == IF i = 0
              THEN Append(c.timed, [key |-> key, items |-> <<entry>>])
              ELSE [c.timed EXCEPT ![i].items = Append(@, entry)]
    IN  [c EXCEPT !.timed = t2, !.wake = get_next_timed_switch_event(t2)]

TimedSwitchHandler(callback, switch_name, state, ms) ==
    [callback |-> callback, switch_name |-> switch_name, state |-> state, ms |-> ms]

RegisteredSwitch(ms, callback) == [ms |-> ms, callback |-> callback]

NumPend(t) ==
    LET RECURSIVE Sum(_)
        Sum(i) == IF i = 0 THEN 0 ELSE Len(t[i].items) + Sum(i - 1)
    IN  Sum(Len(t))

\* -------------------------------------------------------------- callbacks
\* asyncio.Future: status, result, the number of set_result calls it took,
\* whether its done callbacks are scheduled (loop.call_soon) and not yet run;
\* handlers is the list bound to _future_done, the rest are the arguments of
\* the wait_for_any_switch call that made it and the time of that call.
NoFuture ==
    [status |-> "none", result |-> <<>>, sets |-> 0, notify |-> FALSE,
     handlers |-> <<>>, switch_names |-> <<>>, state |-> 0, ms |-> 0,
     only_on_change |-> FALSE, created |-> 0]

\* future.set_result(result); done callbacks are scheduled if there are any
set_result(f, result) ==
    [f EXCEPT !.status = "done", !.result = <<result>>, !.sets = @ + 1,
              !.notify = f.handlers # <<>>]

SwitchHandler(switch_name, callback, state, ms) ==
    [switch_name |-> switch_name, callback |-> callback, state |-> state, ms |-> ms]

\* The keyword arguments bound in the partial of a wait callback.
WaitKwargs(f, callback) ==
    LET h == CHOOSE h \in Range(f.handlers) : h.callback = callback
    IN  [ms |-> h.ms, switch_name |-> h.switch_name]

\* _wait_handler that does not look at _future.done()
_wait_handler_unguarded(c, callback) ==
    [c EXCEPT !.future = set_result(@, WaitKwargs(@, callback))]

_wait_handler(c, callback) ==
    IF c.future.status = "pending"
    THEN [c EXCEPT !.future = set_result(@, WaitKwargs(@, callback))]
    ELSE c

RECURSIVE process_switch_obj(_, _, _, _)
RECURSIVE add_switch_handler(_, _, _, _, _)
RECURSIVE remove_switch_handler(_, _, _, _, _)

\* add_switch_handler / remove_switch_handler called for the handler h
AddByName(c, h) ==
    add_switch_handler(c, HandlerSpec[h].switch_name, h, HandlerSpec[h].state,
                       HandlerSpec[h].ms)

RemoveByName(c, h) ==
    remove_switch_handler(c, HandlerSpec[h].switch_name, h, HandlerSpec[h].state,
                          HandlerSpec[h].ms)

\* A handler callback: it records that it ran (key is the bucket it was fired
\* from, NoTimer for an immediate call) and then does what the handler does.
RunCallback(c, callback, key) ==
    LET c1 == [c EXCEPT !.fired = Append(@, [callback |-> callback, key |-> key])]
    IN  IF callback \in {"h6", "h7"}
        THEN [process_switch_obj(c1, "b", 1, TRUE) EXCEPT
                 !.outcome = c.outcome, !.state = c.state, !.hw = c.hw]
        ELSE IF callback = "h10" THEN RemoveByName(RemoveByName(c1, "h3"), "h1")
        ELSE IF callback = "h11" THEN AddByName(AddByName(c1, "h3"), "h1")
        ELSE IF callback \in WaitIds THEN _wait_handler(c1, callback)
        ELSE c1

remove_monitor(c, monitor) ==
    IF monitor \in Range(c.monitors)
    THEN [c EXCEPT !.monitors = RemoveFirst(@, monitor)]
    ELSE c

add_monitor(c, monitor) ==
    IF monitor \notin Range(c.monitors)
    THEN [c EXCEPT !.monitors = Append(@, monitor)]
    ELSE c

RunMonitor(c, monitor, change) ==
    LET c1 == [c EXCEPT !.mons = Append(@, [monitor |-> monitor, name |-> change.name,
                                            state |-> change.state])]
    IN  IF monitor = "m2" THEN remove_monitor(c1, monitor) ELSE c1

\* for monitor in self.monitors: monitor(change) -- the live list is iterated
\* by position, so a removal made by a callback shifts the remaining entries.
RECURSIVE CallMonitorsFrom(_, _, _)
CallMonitorsFrom(c, i, change) ==
    IF i > Len(c.monitors) THEN c
    ELSE CallMonitorsFrom(RunMonitor(c, c.monitors[i], change), i + 1, change)

CallMonitors(c, change) == CallMonitorsFrom(c, 1, change)

\* ------------------------------------------------------ handler registry
\* _call_handlers: iterate a copy of the bucket, skipping entries that are no
\* longer in the live bucket.
RECURSIVE CallHandlersFrom(_, _, _, _, _)
CallHandlersFrom(c, snapshot, i, name, state) ==
    IF i > Len(snapshot) THEN c
    ELSE LET entry == snapshot[i]
             c1 == IF entry \notin Range(c.registered[<<name, state>>]) THEN c
                   ELSE IF entry.ms # 0
                   THEN _add_timed_switch_handler(
                            c, now + entry.ms * TicksPerMs,
                            TimedSwitchHandler(entry.callback, name, state, entry.ms))
                   ELSE RunCallback(c, entry.callback, NoTimer)
         IN  CallHandlersFrom(c1, snapshot, i + 1, name, state)

\* _call_handlers that walks the copy of the bucket from its last entry
_call_handlers_reversed(c, name, state) ==
    LET bucket == c.registered[<<name, state>>]
    IN  CallHandlersFrom(c, [i \in 1..Len(bucket) |-> bucket[Len(bucket) + 1 - i]],
                         1, name, state)

_call_handlers(c, name, state) ==
    CallHandlersFrom(c, c.registered[<<name, state>>], 1, name, state)

\* for k2, item in enumerate(v): ... del v[k2] -- v is the live bucket, so the
\* position advances past the entry that slid into the freed slot.
RECURSIVE CancelIn(_, _, _, _)
CancelIn(items, k2, name, state) ==
    IF k2 > Len(items) THEN items
    ELSE IF items[k2].switch_name = name /\ items[k2].state = Xor(state, 1)
    THEN CancelIn(RemoveAt(items, k2), k2 + 1, name, state)
    ELSE CancelIn(items, k2 + 1, name, state)

_cancel_timed_handlers(c, name, state) ==
    [c EXCEPT !.timed =
        [i \in 1..Len(@) |-> [@[i] EXCEPT !.items = CancelIn(@, 1, name, state)]]]

\* for idx, settings in enumerate(bucket): if match: bucket.remove(settings)
RECURSIVE RemoveRegFrom(_, _, _, _)
RemoveRegFrom(bucket, i, ms, callback) ==
    IF i > Len(bucket) THEN bucket
    ELSE IF bucket[i].ms = ms /\ bucket[i].callback = callback
    THEN RemoveRegFrom(RemoveFirst(bucket, bucket[i]), i + 1, ms, callback)
    ELSE RemoveRegFrom(bucket, i + 1, ms, callback)

\* for dummy_key, entry in enumerate(timed_entry): if match: del bucket[dummy_key]
RECURSIVE RemoveTimedFrom(_, _, _)
RemoveTimedFrom(items, i, entry) ==
    IF i > Len(items) THEN items
    ELSE IF items[i] = entry
    THEN RemoveTimedFrom(RemoveAt(items, i), i + 1, entry)
    ELSE RemoveTimedFrom(items, i + 1, entry)

add_switch_handler(c, switch_name, callback, state, ms) ==
    LET c1 == [c EXCEPT !.registered[<<Lower(switch_name), state>>] =
                   Append(@, RegisteredSwitch(ms, callback))]
    IN  IF ms # 0 /\ ms_since_change(c1, switch_name) < ms
           /\ ((state = 1 /\ is_active(c1, switch_name, 0))
               \/ (state = 0 /\ is_inactive(c1, switch_name, 0)))
        THEN _add_timed_switch_handler(
                 c1, now + (ms - ms_since_change(c1, switch_name)) * TicksPerMs,
                 TimedSwitchHandler(callback, switch_name, state, ms))
        ELSE c1

remove_switch_handler(c, switch_name, callback, state, ms) ==
    [c EXCEPT
        !.registered[<<Lower(switch_name), state>>] = RemoveRegFrom(@, 1, ms, callback),
        !.timed = [i \in 1..Len(@) |->
                     [@[i] EXCEPT !.items =
                        RemoveTimedFrom(@, 1, TimedSwitchHandler(callback, switch_name,
                                                                 state, ms))]]]

remove_switch_handler_by_key(c, switch_handler) ==
    remove_switch_handler(c, switch_handler.switch_name, switch_handler.callback,
                          switch_handler.state, switch_handler.ms)

\* ------------------------------------------------------- hardware check
\* switch_states is the list read from the platform (entry number - 1 of the
\* Python list is entry number here); order is the iteration order of the set
\* of (switch, number) pairs.  A missing number raises AssertionError after
\* the switches before it in that order have been updated.
RECURSIVE UpdateFrom(_, _, _, _)
UpdateFrom(c, switch_states, order, i) ==
    IF i > Len(order) THEN c
    ELSE IF HwNumber[order[i]] > Len(switch_states)
    THEN [c EXCEPT !.outcome = "fatal"]
    ELSE UpdateFrom([c EXCEPT !.dev[order[i]].state =
                        Xor(switch_states[HwNumber[order[i]]], B2I(invert[order[i]]))],
                    switch_states, order, i + 1)

\* update_switches_from_hw that forgets the NC inversion
update_switches_from_hw_raw(c, switch_states, order) ==
    LET c1 == UpdateFrom(c, switch_states, order, 1)
    IN  IF c1.outcome = "fatal" THEN c1
        ELSE [c1 EXCEPT !.dev = [s \in Switches |->
                 [c.dev[s] EXCEPT !.state = switch_states[HwNumber[s]]]]]

update_switches_from_hw(c, switch_states, order) ==
    UpdateFrom(c, switch_states, order, 1)

verify_switches(c, switch_states, order) ==
    LET current_states == [s \in Switches |-> c.dev[s].state]
        c1 == update_switches_from_hw([c EXCEPT !.raw = switch_states],
                                      switch_states, order)
    IN  IF c1.outcome = "fatal" THEN c1
        ELSE IF \A s \in Switches : c1.dev[s].state = current_states[s]
        THEN [c1 EXCEPT !.outcome = "ok"]
        ELSE [c1 EXCEPT !.outcome = "mismatch"]

\* ---------------------------------------------------------- wait primitive
\* for switch_name in switch_names: handlers.append(self.add_switch_handler(...))
RECURSIVE AddWaitHandlers(_, _, _, _, _)
AddWaitHandlers(c, switch_names, i, state, ms) ==
    IF i > Len(switch_names) THEN c
    ELSE LET c1 == add_switch_handler(c, switch_names[i], WaitId(i), state, ms)
             c2 == [c1 EXCEPT !.future.handlers =
                       Append(@, SwitchHandler(switch_names[i], WaitId(i), state, ms))]
         IN  AddWaitHandlers(c2, switch_names, i + 1, state, ms)

\* wait_for_any_switch without the immediate path
wait_for_any_switch_on_change(c, switch_names, state, only_on_change, ms) ==
    LET f == [NoFuture EXCEPT !.status = "pending", !.switch_names = switch_names,
                              !.state = state, !.ms = ms,
                              !.only_on_change = only_on_change, !.created = now]
    IN  AddWaitHandlers([c EXCEPT !.future = f], switch_names, 1, state, ms)

wait_for_any_switch(c, switch_names, state, only_on_change, ms) ==
    LET f == [NoFuture EXCEPT !.status = "pending", !.switch_names = switch_names,
                              !.state = state, !.ms = ms,
                              !.only_on_change = only_on_change, !.created = now]
        hits == {i \in 1..Len(switch_names) : is_state(c, switch_names[i], state, ms)}
    IN  IF ~only_on_change /\ hits # {}
        THEN [c EXCEPT !.future =
                 set_result(f, [switch_name |-> switch_names[SetMin(hits)],
                                state |-> state, ms |-> ms])]
        ELSE AddWaitHandlers([c EXCEPT !.future = f], switch_names, 1, state, ms)

\* for handler in handlers: self.remove_switch_handler_by_key(handler)
RECURSIVE FutureDoneFrom(_, _, _)
FutureDoneFrom(c, handlers, i) ==
    IF i > Len(handlers) THEN c
    ELSE FutureDoneFrom(remove_switch_handler_by_key(c, handlers[i]), handlers, i + 1)

_future_done(c, handlers) == FutureDoneFrom(c, handlers, 1)

\* -------------------------------------------------------------- dispatcher
\* _check_recycle_time: [ok, c]; a refused activation counts as jitter.
\* _check_recycle_time that does not count the refused activation
_check_recycle_time_uncounted(c, name, state) ==
    [ok |-> now >= c.dev[name].recycle_clear_time, c |-> c]

_check_recycle_time(c, name, state) ==
    IF now >= c.dev[name].recycle_clear_time
    THEN [ok |-> TRUE, c |-> c]
    ELSE [ok |-> FALSE,
          c |-> IF state # 0
                THEN [c EXCEPT !.dev[name].recycle_jitter_count = @ + 1]
                ELSE c]

MonitoredSwitchChange(name, state) == [name |-> name, state |-> state]

\* Logical state and physical level computed from the arguments of the call.
LogicalOf(name, state, logical) ==
    IF invert[name] /\ ~logical THEN Xor(state, 1) ELSE state

HwOf(name, state, logical) ==
    IF invert[name] /\ logical THEN Xor(state, 1) ELSE state

\* recycle_clear_time set to the time of the activation, without the window
NextRecycleClear_no_window(c, name, state) ==
    IF state # 0 THEN now ELSE c.dev[name].recycle_clear_time

\* obj.recycle_clear_time after a call that passed the recycle gate
NextRecycleClear(c, name, state) ==
    IF state # 0 THEN now + recycle_secs[name] ELSE c.dev[name].recycle_clear_time

\* a dispatcher without the duplicate-state check
IsDuplicate_never(c, name, state) == FALSE

\* if self.switches[obj.name].state == state: ... return
IsDuplicate(c, name, state) == c.switches[name].state = state

process_switch_obj(c, name, state_in, logical) ==
    LET state == LogicalOf(name, state_in, logical)
        hw_state == HwOf(name, state_in, logical)
        c1 == [c EXCEPT !.dev[name].hw_state = hw_state,
                        !.state = state, !.hw = hw_state]
        chk == _check_recycle_time(c1, name, state)
    IN  IF state # 0 /\ ~chk.ok
        THEN [chk.c EXCEPT
                !.retries = Append(@, [deadline |-> c1.dev[name].recycle_clear_time,
                                       name |-> name, state |-> state,
                                       logical |-> logical, hw_state |-> hw_state]),
                !.outcome = "deferred"]
        ELSE LET c2 == [c1 EXCEPT
                          !.dev[name].state = state,
                          !.dev[name].recycle_clear_time = NextRecycleClear(c1, name, state)]
             IN  IF IsDuplicate(c2, name, state)
                 THEN [c2 EXCEPT !.outcome = "duplicate"]
                 ELSE LET c3 == [set_state(c2, name, state, FALSE) EXCEPT
                                    !.acc = Append(@, MonitoredSwitchChange(name, state))]
                          c4 == _call_handlers(c3, name, state)
                          c5 == _cancel_timed_handlers(c4, name, state)
                          c6 == CallMonitors(c5, MonitoredSwitchChange(name, state))
                      IN  [c6 EXCEPT !.outcome = "accepted", !.state = state,
                                     !.hw = hw_state]

\* self.machine.switches[name] raises KeyError for an unknown name
process_switch(c, name, state, logical) ==
    IF name \notin Switches THEN [c EXCEPT !.outcome = "fatal"]
    ELSE process_switch_obj(c, name, state, logical)

_recycle_passed(c, r) ==
    IF c.dev[r.name].hw_state = r.hw_state
    THEN process_switch(c, r.name, r.state, r.logical)
    ELSE [c EXCEPT !.outcome = "skipped"]

process_switch_by_num(c, num, state, logical) ==
    IF \E s \in Switches : HwNumber[s] = num
    THEN process_switch_obj(c, CHOOSE s \in Switches : HwNumber[s] = num, state, logical)
    ELSE [CallMonitors(c, MonitoredSwitchChange(ToString(num), state))
            EXCEPT !.outcome = "unconfigured"]

\* _process_active_timed_switches
RECURSIVE FireBucketFrom(_, _, _, _)
FireBucketFrom(c, key, snapshot, i) ==
    IF i > Len(snapshot) THEN c
    ELSE LET b == BucketIndex(c.timed, key)
             live == IF b = 0 THEN <<>> ELSE c.timed[b].items
             c1 == IF snapshot[i] \notin Range(live) THEN c
                   ELSE RunCallback(c, snapshot[i].callback, key)
         IN  FireBucketFrom(c1, key, snapshot, i + 1)

DeleteBucket(t, key) ==
    LET b == BucketIndex(t, key) IN IF b = 0 THEN t ELSE RemoveAt(t, b)

\* r = [c, next]: next is next_event_time (NoTimer for False)
RECURSIVE DrainFrom(_, _, _)
DrainFrom(r, keys, i) ==
    IF i > Len(keys) THEN r
    ELSE LET k == keys[i]
         IN  IF k <= now
             THEN LET b == BucketIndex(r.c.timed, k)
                      snapshot == IF b = 0 THEN <<>> ELSE r.c.timed[b].items
                      c1 == FireBucketFrom(r.c, k, snapshot, 1)
                  IN  DrainFrom([c |-> [c1 EXCEPT !.timed = DeleteBucket(@, k)],
                                 next |-> r.next], keys, i + 1)
             ELSE DrainFrom([r EXCEPT !.next =
                                IF @ = NoTimer \/ @ > k THEN k ELSE @], keys, i + 1)

_process_active_timed_switches(c) ==
    LET keys == [i \in 1..Len(c.timed) |-> c.timed[i].key]
        r == DrainFrom([c |-> c, next |-> NoTimer], keys, 1)
    IN  IF r.next # NoTimer THEN [r.c EXCEPT !.wake = r.next] ELSE r.c

\* ------------------------------------------------------------------ Init
SwitchConfigs ==
    {cfg \in [Switches -> [invert : BOOLEAN, recycle : {0, RecycleTicks}]] :
        cfg["b"] = [invert |-> FALSE, recycle |-> 0]}

\* The controller after construction and init_phase_2 (_initialize_switches):
\* every device state is the level read from the platform (0) XOR invert, the
\* store holds it with the sentinel time, nothing is registered or scheduled.
Constructed ==
    [dev |-> [s \in Switches |->
                [state |-> B2I(invert[s]), hw_state |-> 0,
                 recycle_clear_time |-> 0, recycle_jitter_count |-> 0]],
     switches |-> [s \in Switches |-> [state |-> B2I(invert[s]), time |-> Sentinel]],
     registered |-> [k \in Switches \X {0, 1} |-> <<>>],
     timed |-> <<>>, wake |-> NoTimer, retries |-> <<>>, monitors |-> <<>>,
     future |-> NoFuture,
     fired |-> <<>>, mons |-> <<>>, acc |-> <<>>, callback |-> "", raw |-> <<>>,
     outcome |-> "none", state |-> 0, hw |-> 0]

\* The handlers and monitors the machine registers while it starts up.
RECURSIVE SetupHandlers(_, _)
SetupHandlers(c, hs) ==
    IF hs = <<>> THEN c
    ELSE LET h == HandlerSpec[Head(hs)]
         IN  SetupHandlers(add_switch_handler(c, h.switch_name, Head(hs), h.state, h.ms),
                           Tail(hs))

RECURSIVE SetupMonitors(_, _)
SetupMonitors(c, ms) ==
    IF ms = <<>> THEN c ELSE SetupMonitors(add_monitor(c, Head(ms)), Tail(ms))

InitWith(hs, ms) ==
    /\ now = 0
    /\ \E cfg \in SwitchConfigs :
          /\ invert = [s \in Switches |-> cfg[s].invert]
          /\ recycle_secs = [s \in Switches |-> cfg[s].recycle]
    /\ LET c == SetupMonitors(SetupHandlers(Constructed, hs), ms)
       IN  /\ dev = c.dev
           /\ switches = c.switches
           /\ registered = c.registered
           /\ timed = c.timed
           /\ wake = c.wake
           /\ retries = c.retries
           /\ monitors = c.monitors
           /\ future = c.future
    /\ wire = [s \in Switches |-> <<>>]
    /\ lastAct = [s \in Switches |-> <<>>]
    /\ calls = [h \in HandlerIds |-> 0]
    /\ lastEv = [op |-> "init", sw |-> "", in |-> 0, logical |-> FALSE, phys |-> 0,
                 outcome |-> "none", state |-> 0, hw |-> 0,
                 fired |-> <<>>, mons |-> <<>>, acc |-> <<>>, callback |-> "", raw |-> <<>>]

Init == InitWith(<<"h3", "h1", "h2", "h4", "h5">>, <<"m1">>)

\* ------------------------------------------------------------ bookkeeping
NoTimerDue ==
    /\ wake = NoTimer \/ wake > now
    /\ \A i \in 1..Len(retries) : retries[i].deadline > now

Bounded(c) ==
    /\ \A s \in Switches : c.dev[s].recycle_jitter_count <= MaxJitter
    /\ \A k \in DOMAIN c.registered : Len(c.registered[k]) <= MaxReg
    /\ NumPend(c.timed) <= MaxPend

Event(op, sw, in, logical, phys, c) ==
    [op |-> op, sw |-> sw, in |-> in, logical |-> logical, phys |-> phys,
     outcome |-> c.outcome,
     state |-> c.state, hw |-> c.hw, fired |-> c.fired, mons |-> c.mons,
     acc |-> c.acc, callback |-> c.callback, raw |-> c.raw]

FiredCount(c, h) == Cardinality({i \in 1..Len(c.fired) : c.fired[i].callback = h})

SatAdd(x, n) == IF x + n > CallsCap THEN CallsCap ELSE x + n

\* The program state after a call that left the controller in c.
Commit(c) ==
    /\ Bounded(c)
    /\ dev' = c.dev
    /\ switches' = c.switches
    /\ registered' = c.registered
    /\ timed' = c.timed
    /\ wake' = c.wake
    /\ retries' = c.retries
    /\ monitors' = c.monitors
    /\ future' = c.future
    /\ UNCHANGED <<invert, recycle_secs>>

\* Invocation history after a call for switch sw that ended in c: an accepted
\* transition starts a new visit, whose count starts with the calls it made.
Counted(sw, c) ==
    /\ calls' = [h \in HandlerIds |->
                   IF c.outcome = "accepted" /\ HandlerSpec[h].switch_name = sw
                   THEN SatAdd(0, FiredCount(c, h))
                   ELSE SatAdd(calls[h], FiredCount(c, h))]
    /\ lastAct' = IF c.outcome = "accepted" /\ c.state = 1 /\ recycle_secs[sw] > 0
                  THEN [lastAct EXCEPT ![sw] = <<now>>]
                  ELSE lastAct

PhysicalOf(name, state, logical) ==
    IF logical THEN Xor(state, B2I(invert[name])) ELSE state

\* ---------------------------------------------------------------- actions
ProcessSwitch(name, state, logical) ==
    /\ NoTimerDue
    /\ LET c == process_switch(Ctl, name, state, logical)
       IN  /\ Commit(c)
           /\ IF name \in Switches
              THEN /\ Counted(name, c)
                   /\ lastEv' = Event("process_switch", name, state, logical,
                                      PhysicalOf(name, state, logical), c)
                   /\ wire' = [wire EXCEPT ![name] = <<PhysicalOf(name, state, logical)>>]
              ELSE /\ lastEv' = Event("process_switch", name, state, logical, state, c)
                   /\ UNCHANGED <<calls, wire, lastAct>>
    /\ UNCHANGED now

ProcessSwitchByNum(num, state, logical) ==
    /\ NoTimerDue
    /\ LET c == process_switch_by_num(Ctl, num, state, logical)
           known == {s \in Switches : HwNumber[s] = num}
       IN  /\ Commit(c)
           /\ IF known = {}
              THEN /\ UNCHANGED <<calls, wire, lastAct>>
                   /\ lastEv' = Event("process_switch_by_num", ToString(num), state,
                                      logical, state, c)
              ELSE LET name == CHOOSE s \in known : TRUE
                   IN  /\ Counted(name, c)
                       /\ wire' = [wire EXCEPT ![name] = <<PhysicalOf(name, state, logical)>>]
                       /\ lastEv' = Event("process_switch", name, state, logical,
                                          PhysicalOf(name, state, logical), c)
    /\ UNCHANGED now

\* The clock runs a scheduled _recycle_passed.
RecyclePassed(i) ==
    /\ i \in 1..Len(retries)
    /\ retries[i].deadline <= now
    /\ LET r == retries[i]
           c == _recycle_passed([Ctl EXCEPT !.retries = RemoveAt(@, i)], r)
       IN  /\ Commit(c)
           /\ Counted(r.name, c)
           /\ lastEv' = Event("_recycle_passed", r.name, r.state, r.logical, r.hw_state, c)
    /\ UNCHANGED <<now, wire>>

\* The clock runs the scheduled _process_active_timed_switches.
ProcessTimed ==
    /\ wake # NoTimer
    /\ wake <= now
    /\ LET c == _process_active_timed_switches([Ctl EXCEPT !.wake = NoTimer])
       IN  /\ Commit(c)
           /\ Counted("", c)
           /\ lastEv' = Event("_process_active_timed_switches", "", 0, FALSE, 0, c)
    /\ UNCHANGED <<now, wire>>

AddHandler(h) ==
    /\ NoTimerDue
    /\ LET hs == HandlerSpec[h]
           c == add_switch_handler([Ctl EXCEPT !.callback = h],
                                   hs.switch_name, h, hs.state, hs.ms)
       IN  /\ Commit(c)
           /\ lastEv' = Event("add_switch_handler", hs.switch_name, 0, FALSE, 0, c)
    /\ UNCHANGED <<now, wire, lastAct, calls>>

RemoveHandler(h) ==
    /\ NoTimerDue
    /\ LET hs == HandlerSpec[h]
           c == remove_switch_handler([Ctl EXCEPT !.callback = h],
                                      hs.switch_name, h, hs.state, hs.ms)
       IN  /\ Commit(c)
           /\ lastEv' = Event("remove_switch_handler", hs.switch_name, 0, FALSE, 0, c)
    /\ UNCHANGED <<now, wire, lastAct, calls>>

AddMonitor(m) ==
    /\ NoTimerDue
    /\ LET c == add_monitor(Ctl, m)
       IN  /\ Commit(c)
           /\ lastEv' = Event("add_monitor", m, 0, FALSE, 0, c)
    /\ UNCHANGED <<now, wire, lastAct, calls>>

RemoveMonitor(m) ==
    /\ NoTimerDue
    /\ LET c == remove_monitor(Ctl, m)
       IN  /\ Commit(c)
           /\ lastEv' = Event("remove_monitor", m, 0, FALSE, 0, c)
    /\ UNCHANGED <<now, wire, lastAct, calls>>

\* verify_switches() while the platform reports switch_states
VerifySwitches(switch_states, order) ==
    /\ NoTimerDue
    /\ LET c == verify_switches(Ctl, switch_states, order)
       IN  /\ Commit(c)
           /\ lastEv' = Event("verify_switches", "", 0, FALSE, 0, c)
    /\ UNCHANGED <<now, wire, lastAct, calls>>

\* wait_for_any_switch(switch_names, state, only_on_change, ms)
WaitForAny(switch_names, state, only_on_change, ms) ==
    /\ NoTimerDue
    /\ future.status = "none"
    /\ LET c == wait_for_any_switch(Ctl, switch_names, state, only_on_change, ms)
       IN  /\ Commit(c)
           /\ lastEv' = Event("wait_for_any_switch", "", state, only_on_change, 0, c)
    /\ UNCHANGED <<now, wire, lastAct, calls>>

\* The owner of the future cancels it: future.cancel()
CancelFuture ==
    /\ future.status = "pending"
    /\ LET c == [Ctl EXCEPT !.future.status = "cancelled", !.future.notify = TRUE]
       IN  /\ Commit(c)
           /\ lastEv' = Event("cancel", "", 0, FALSE, 0, c)
    /\ UNCHANGED <<now, wire, lastAct, calls>>

\* The event loop runs the done callback of the future: _future_done
FutureDone ==
    /\ future.notify
    /\ LET c == _future_done([Ctl EXCEPT !.future.notify = FALSE], future.handlers)
       IN  /\ Commit(c)
           /\ lastEv' = Event("_future_done", "", 0, FALSE, 0, c)
    /\ UNCHANGED <<now, wire, lastAct, calls>>

\* Time passes; a due clock callback and a scheduled done callback run before
\* the clock moves on.
Tick ==
    /\ NoTimerDue
    /\ ~future.notify
    /\ now < MaxTime
    /\ now' = now + 1
    /\ lastEv' = [op |-> "tick", sw |-> "", in |-> 0, logical |-> FALSE, phys |-> 0,
                  outcome |-> "none", state |-> 0, hw |-> 0,
                  fired |-> <<>>, mons |-> <<>>, acc |-> <<>>, callback |-> "", raw |-> <<>>]
    /\ UNCHANGED <<invert, recycle_secs, dev, switches, registered, timed, wake,
                   retries, monitors, future, wire, lastAct, calls>>

\* ----------------------------------------------------------- specification
\* The dispatcher with the registrations of start-up: one switch receives
\* input by name or by number, unconfigured numbers are hit, and the clock
\* runs the retries and the timed-queue drains it was asked to run.
Next ==
    \/ \E state \in {0, 1}, logical \in BOOLEAN : ProcessSwitch("a", state, logical)
    \/ \E num \in {HwNumber["a"], UnknownNum}, state \in {0, 1} :
          ProcessSwitchByNum(num, state, FALSE)
    \/ \E i \in 1..MaxJitter : RecyclePassed(i)
    \/ ProcessTimed
    \/ Tick

Spec == Init /\ [][Next]_vars

\* The dispatcher with monitors that come and go, no handler registered.
InitMon == InitWith(<<>>, <<>>)

NextMon ==
    \/ \E state \in {0, 1} : ProcessSwitch("a", state, FALSE)
    \/ \E state \in {0, 1} : ProcessSwitchByNum(UnknownNum, state, FALSE)
    \/ \E i \in 1..MaxJitter : RecyclePassed(i)
    \/ \E m \in MonitorIds : AddMonitor(m)
    \/ \E m \in MonitorIds : RemoveMonitor(m)
    \/ Tick

SpecMon == InitMon /\ [][NextMon]_vars

\* The dispatcher with a handler that feeds a second switch: h6 activates "b"
\* while the activation of "a" is being dispatched.
InitNest == InitWith(<<"h6", "h3">>, <<"m1">>) /\ recycle_secs["a"] = 0

NextNest ==
    \/ \E state \in {0, 1} : ProcessSwitch("a", state, TRUE)
    \/ ProcessSwitch("b", 0, TRUE)
    \/ Tick

SpecNest == InitNest /\ [][NextNest]_vars

\* The wait primitive: a future is created on an idle machine (the clock of
\* this specification starts at that call), the listed switches change, the
\* owner may cancel, and the event loop runs the done callback.
WaitLists == {<<"a", "b">>, <<"a", "a">>}

InitWait == InitWith(<<>>, <<>>) /\ ~invert["a"] /\ recycle_secs["a"] = 0

NextWait ==
    \/ \E switch_names \in WaitLists, ms \in {0, DwellMs} :
          now = 0 /\ WaitForAny(switch_names, 1, TRUE, ms)
    \/ \E state \in {0, 1} : future.status # "none" /\ ProcessSwitch("a", state, TRUE)
    \/ future.status # "none" /\ ProcessSwitch("b", 1, TRUE)
    \/ ProcessTimed
    \/ CancelFuture
    \/ FutureDone
    \/ Tick

SpecWait == InitWait /\ [][NextWait]_vars

\* The call of the wait primitive: the switches change for a while, then
\* wait_for_any_switch is called with any arguments.
CallLists == {<<"a", "b">>, <<"b", "a">>}

InitCall == InitWith(<<>>, <<>>) /\ recycle_secs["a"] = 0

NextCall ==
    \/ \E state \in {0, 1} : future.status = "none" /\ ProcessSwitch("a", state, TRUE)
    \/ future.status = "none" /\ ProcessSwitch("b", 1, TRUE)
    \/ \E switch_names \in CallLists, state \in {0, 1}, only_on_change \in BOOLEAN,
          ms \in {0, DwellMs} : WaitForAny(switch_names, state, only_on_change, ms)
    \/ Tick

SpecCall == InitCall /\ [][NextCall]_vars

\* The registry: dwell handlers are added and removed while the switch
\* changes and the timed queue is drained.
RegIds == {"h1", "h2"}

InitReg == InitWith(<<>>, <<>>) /\ ~invert["a"] /\ recycle_secs["a"] = 0

NextReg ==
    \/ \E h \in RegIds : AddHandler(h)
    \/ \E h \in RegIds : RemoveHandler(h)
    \/ \E state \in {0, 1} : ProcessSwitch("a", state, TRUE)
    \/ ProcessTimed
    \/ Tick

SpecReg == InitReg /\ [][NextReg]_vars

\* Diagnostics and bad input: the hardware check, an unknown switch name
\* and an unconfigured hardware number, on a machine that has handlers and
\* monitors.
RawReads == UNION {[1..n -> {0, 1}] : n \in 0..Cardinality(Switches)}
Orders == {<<"a", "b">>, <<"b", "a">>}

InitDiag == InitWith(<<"h3", "h1">>, <<"m2", "m1">>) /\ recycle_secs["a"] = 0

NextDiag ==
    \/ \E state \in {0, 1} : ProcessSwitch("a", state, FALSE)
    \/ \E state \in {0, 1} : ProcessSwitch(UnknownName, state, FALSE)
    \/ \E state \in {0, 1} : ProcessSwitchByNum(UnknownNum, state, FALSE)
    \/ \E switch_states \in RawReads, order \in Orders :
          VerifySwitches(switch_states, order)
    \/ ProcessTimed
    \/ Tick

SpecDiag == InitDiag /\ [][NextDiag]_vars

\* The drain with a callback that feeds the queue: h7 activates "b" when its
\* dwell on "a" has elapsed, and "b" has dwell handlers of its own.
InitDrain ==
    InitWith(<<"h7", "h8", "h9">>, <<>>) /\ ~invert["a"] /\ recycle_secs["a"] = 0

NextDrain ==
    \/ \E name \in Switches, state \in {0, 1} : ProcessSwitch(name, state, TRUE)
    \/ ProcessTimed
    \/ Tick

SpecDrain == InitDrain /\ [][NextDrain]_vars

\* Handlers that change the registry while a transition is dispatched: h10
\* removes h3 and h1, h11 adds them; h3 and h1 are also added and removed
\* between transitions.
MutIds == {"h3", "h1"}

InitMut ==
    /\ InitWith(<<"h10">>, <<>>) \/ InitWith(<<"h11">>, <<>>)
    /\ ~invert["a"]
    /\ recycle_secs["a"] = 0

NextMut ==
    \/ \E h \in MutIds : AddHandler(h)
    \/ \E h \in MutIds : RemoveHandler(h)
    \/ \E state \in {0, 1} : ProcessSwitch("a", state, TRUE)
    \/ ProcessTimed
    \/ Tick

SpecMut == InitMut /\ [][NextMut]_vars

\* Plain handlers of one (switch, state), with and without dwell: registered
\* in one of several orders, removed between transitions, and h2
\* also added between transitions.
OrderIds == {"h3", "h12", "h1", "h2"}
LateIds == {"h2"}
StartOrders ==
    {<<"h3", "h12">>, <<"h12", "h3">>, <<"h1", "h2">>, <<"h2", "h1">>, <<"h3", "h1">>}

InitOrder ==
    /\ \E hs \in StartOrders : InitWith(hs, <<>>)
    /\ ~invert["a"]
    /\ recycle_secs["a"] = 0

NextOrder ==
    \/ \E h \in LateIds : AddHandler(h)
    \/ \E h \in OrderIds : RemoveHandler(h)
    \/ \E state \in {0, 1} : ProcessSwitch("a", state, TRUE)
    \/ ProcessTimed
    \/ Tick

SpecOrder == InitOrder /\ [][NextOrder]_vars

\* A dwell handler registered and removed under the spelling "A" of switch a,
\* next to one that uses the configured spelling.
CaseIds == {"h13", "h1"}

InitCase == InitWith(<<>>, <<>>) /\ ~invert["a"] /\ recycle_secs["a"] = 0

NextCase ==
    \/ \E h \in CaseIds : AddHandler(h)
    \/ \E h \in CaseIds : RemoveHandler(h)
    \/ \E state \in {0, 1} : ProcessSwitch("a", state, TRUE)
    \/ ProcessTimed
    \/ Tick

SpecCase == InitCase /\ [][NextCase]_vars

\* ------------------------------------------------------------- properties
\* The last step called process_switch_obj: directly, or from a retry that
\* found the physical state unchanged.
Dispatching(ev) ==
    ev.op \in {"process_switch", "_recycle_passed"} /\ ev.outcome # "skipped"

\* The logical state that call has to compute from its arguments.
CallState(ev) == IF ev.logical THEN ev.in ELSE Xor(ev.in, B2I(invert[ev.sw]))

TimesCalled(log, m) == Cardinality({i \in 1..Len(log) : log[i].monitor = m})

\* C1: a handler registered for (name, s) with dwell_ms > 0 is never invoked
\* for a visit to s that the switch left before dwell_ms had elapsed: when a
\* pending fires from the bucket of deadline key, the switch has not changed
\* state between the start of that visit (key - dwell) and the deadline.
C1_NoFireAfterEarlyLeave ==
    \A i \in 1..Len(lastEv.fired) :
        LET f == lastEv.fired[i]
            h == HandlerSpec[f.callback]
            st == switches[h.switch_name]
            begun == f.key - h.ms * TicksPerMs
        IN  f.key # NoTimer =>
                ~(st.time < f.key /\ (st.state # h.state \/ st.time > begun))

\* C2: while the switch is in s after an accepted transition at time T, a
\* handler registered for (name, s, dwell_ms > 0) has not been invoked before
\* T + dwell_ms, is invoked once per registration at T + dwell_ms, and never
\* more often than that during the visit.
C2_DwellFiresExactlyOnce ==
    \A h \in HandlerIds :
        LET hs == HandlerSpec[h]
            st == switches[hs.switch_name]
            n == Count(registered[<<hs.switch_name, hs.state>>],
                       RegisteredSwitch(hs.ms, h))
            due == st.time + hs.ms * TicksPerMs
        IN  (hs.ms > 0 /\ n > 0 /\ st.state = hs.state /\ st.time # Sentinel) =>
                /\ now < due => calls[h] = 0
                /\ calls[h] <= n
                /\ (now >= due /\ NoTimerDue) => calls[h] = n

\* C3: after a call of process_switch that was neither deferred nor dropped
\* as a duplicate, the store holds the logical (inversion-corrected) state of
\* the call and the clock reading of the call, so ms_since_change is 0.
C3_AcceptedStoresStateAndTime ==
    (Dispatching(lastEv) /\ lastEv.outcome = "accepted") =>
        /\ switches[lastEv.sw] = [state |-> CallState(lastEv), time |-> now]
        /\ ms_since_change(Ctl, lastEv.sw) = 0

C3_Witness ==
    /\ lastEv.op = "process_switch"
    /\ lastEv.outcome = "accepted"
    /\ invert[lastEv.sw]
    /\ ~lastEv.logical
    /\ now > 0

\* C4: when a retry runs and the recorded physical state still equals the
\* hw_state captured at deferral, it re-processes the activation: a store
\* that recorded 0 records 1 afterwards, the zero-dwell handler of state 1
\* runs and every monitor call reports state 1; when the physical state
\* differs the retry does nothing.
C4_RetryReprocessesActivation ==
    [][lastEv'.op = "_recycle_passed" =>
          LET sw == lastEv'.sw
          IN  IF dev[sw].hw_state = lastEv'.phys
              THEN switches[sw].state = 0 =>
                      /\ switches'[sw].state = 1
                      /\ \E i \in 1..Len(lastEv'.fired) : lastEv'.fired[i].callback = "h3"
                      /\ lastEv'.mons # <<>>
                      /\ \A i \in 1..Len(lastEv'.mons) : lastEv'.mons[i].state = 1
              ELSE /\ UNCHANGED <<dev, switches, registered, timed, wake, monitors>>
                   /\ lastEv'.fired = <<>>
                   /\ lastEv'.mons = <<>>]_vars

\* C5: a call of process_switch whose logical state is 1 and that arrives
\* while now < recycle_clear_time adds exactly 1 to the jitter count of the
\* switch, leaves the store, the registry and the timed queue unchanged and
\* invokes no handler and no monitor.
C5_DeferredTouchesOnlyJitter ==
    [][(Dispatching(lastEv') /\ CallState(lastEv') = 1
            /\ now < dev[lastEv'.sw].recycle_clear_time) =>
          /\ dev'[lastEv'.sw].recycle_jitter_count =
                dev[lastEv'.sw].recycle_jitter_count + 1
          /\ UNCHANGED <<switches, registered, timed>>
          /\ lastEv'.fired = <<>>
          /\ lastEv'.mons = <<>>]_vars

C5_Witness ==
    /\ lastEv.op = "process_switch"
    /\ lastEv.outcome = "deferred"
    /\ switches[lastEv.sw].state = 0
    /\ dev[lastEv.sw].recycle_jitter_count = 1

\* C6: two accepted activations of a switch are at least recycle_secs apart,
\* and a call whose logical state is 0 is never deferred: it neither counts
\* as jitter nor schedules a retry.
C6_ActivationsSpacedByRecycle ==
    [][\A sw \in Switches :
          /\ (switches[sw].state = 0 /\ switches'[sw].state = 1 /\ lastAct[sw] # <<>>) =>
                now' - lastAct[sw][1] >= recycle_secs[sw]
          /\ (Dispatching(lastEv') /\ lastEv'.sw = sw /\ CallState(lastEv') = 0) =>
                /\ dev'[sw].recycle_jitter_count = dev[sw].recycle_jitter_count
                /\ Len(retries') =
                      Len(retries) - (IF lastEv'.op = "_recycle_passed" THEN 1 ELSE 0)]_vars

\* a second activation accepted from a retry, after the window of the first
C6_Witness ==
    /\ lastEv.op = "_recycle_passed"
    /\ lastEv.outcome = "accepted"
    /\ lastEv.state = 1
    /\ ~invert[lastEv.sw]
    /\ recycle_secs[lastEv.sw] > 0

\* C7: a call of process_switch that computes the state the store already
\* records invokes no handler and no monitor, adds no pending to and cancels
\* none from the timed queue, and leaves the store entry with its
\* last_change_time.
C7_DuplicateIsDropped ==
    [][(Dispatching(lastEv') /\ CallState(lastEv') = switches[lastEv'.sw].state) =>
          /\ lastEv'.fired = <<>>
          /\ lastEv'.mons = <<>>
          /\ UNCHANGED <<switches, timed, wake>>]_vars

\* chatter while a dwell is being timed
C7_Witness ==
    /\ lastEv.outcome = "duplicate"
    /\ switches[lastEv.sw].time # Sentinel
    /\ now > switches[lastEv.sw].time
    /\ NumPend(timed) > 0

\* C8: every call of process_switch, made for an external input or by a
\* recycle retry, dispatches the logical state that belongs to the physical
\* level of the input it processes: the two differ for an inverted switch and
\* are equal for a non-inverted one.
C8_LogicalMatchesPhysical ==
    Dispatching(lastEv) =>
        /\ lastEv.state = Xor(lastEv.phys, B2I(invert[lastEv.sw]))
        /\ lastEv.outcome = "accepted" =>
              switches[lastEv.sw].state = Xor(lastEv.phys, B2I(invert[lastEv.sw]))

\* C9: the hw_state recorded on a switch device is the physical level of the
\* most recent external input for that switch; a retry does not change it.
C9_HwStateIsWireLevel ==
    \A sw \in Switches : wire[sw] # <<>> => dev[sw].hw_state = wire[sw][1]

\* C10: a monitor that is registered before and after a step is called
\* exactly once by a step that accepts a transition or hits an unconfigured
\* number, and is not called by any other step.
C10_MonitorCalledOncePerTransition ==
    [][\A m \in Range(monitors) \cap Range(monitors') :
          TimesCalled(lastEv'.mons, m) =
              IF switches' # switches \/ lastEv'.op = "process_switch_by_num"
              THEN 1 ELSE 0]_vars

\* The transitions a monitor was told about by the last step, in call order.
Observed(log, m) ==
    LET mine == SelectSeq(log, LAMBDA e : e.monitor = m)
    IN  [i \in 1..Len(mine) |-> MonitoredSwitchChange(mine[i].name, mine[i].state)]

\* C11: every registered monitor is told about the transitions a step
\* accepted in the order in which the state store recorded them, also when a
\* zero-dwell handler calls process_switch while the outer transition is
\* still being dispatched.
C11_MonitorsSeeAcceptanceOrder ==
    \A m \in Range(monitors) : Observed(lastEv.mons, m) = lastEv.acc

\* The callback of the fired-log entry e belongs to the future and was bound
\* to a switch other than the one the future reports.
OtherWaitHandler(e) ==
    /\ e.callback \in WaitIds
    /\ WaitKwargs(future, e.callback).switch_name # future.result[1].switch_name

\* C12: the future of wait_for_any_switch takes at most one result; a resolved
\* future took exactly one and a cancelled one none; and it is no longer
\* pending once a listed switch has entered the awaited state after the call
\* and stayed there for the dwell (with the clock callbacks that are due
\* run).  A later transition of another listed switch, before or after the
\* done callback, adds no second result.
C12_FutureResolvedOnce ==
    /\ future.sets <= 1
    /\ future.status = "done" => (future.sets = 1 /\ Len(future.result) = 1)
    /\ future.status = "cancelled" => (future.sets = 0 /\ future.result = <<>>)
    /\ future.status = "pending" =>
          \A i \in 1..Len(future.switch_names) :
              LET st == switches[future.switch_names[i]]
              IN  ~(/\ st.state = future.state
                    /\ st.time >= future.created
                    /\ now >= st.time + future.ms * TicksPerMs
                    /\ NoTimerDue)

\* the other listed switch fires its handler before the done callback ran
C12_Witness ==
    /\ future.status = "done"
    /\ future.notify
    /\ \E i \in 1..Len(lastEv.fired) : OtherWaitHandler(lastEv.fired[i])

\* No handler created by wait_for_any_switch is registered or pending.
NoTransient(reg, t) ==
    /\ \A k \in DOMAIN reg : \A i \in 1..Len(reg[k]) : reg[k][i].callback \notin WaitIds
    /\ \A b \in 1..Len(t) : \A i \in 1..Len(t[b].items) :
          t[b].items[i].callback \notin WaitIds

\* C13: when the done callback of a resolved or cancelled future has run,
\* neither the handler registry nor the timed queue holds a handler that
\* wait_for_any_switch registered for it.
C13_DoneCallbackUnregisters ==
    [][lastEv'.op = "_future_done" => NoTransient(registered', timed')]_vars

\* C14: a future resolved by a transient handler carries the record
\* {switch_name, state, ms} of a listed switch, the awaited state and the
\* dwell, as the immediate path does.
C14_ResultNamesSwitchStateDwell ==
    (future.status = "done" /\ future.handlers # <<>>) =>
        \E i \in 1..Len(future.switch_names) :
            future.result[1] = [switch_name |-> future.switch_names[i],
                                state |-> future.state, ms |-> future.ms]

C16_LateJoinDeadline ==
    [][lastEv'.op = "add_switch_handler" =>
          LET h == lastEv'.callback
              hs == HandlerSpec[h]
              st == switches[hs.switch_name]
              entry == TimedSwitchHandler(h, hs.switch_name, hs.state, hs.ms)
          IN  hs.ms > 0 =>
                IF st.state = hs.state /\ ms_since_change(Ctl, hs.switch_name) < hs.ms
                THEN timed' = _add_timed_switch_handler(
                                  Ctl, st.time + hs.ms * TicksPerMs, entry).timed
                ELSE timed' = timed]_vars

\* C17: after remove_switch_handler(switch, callback, state, ms) no bucket of
\* the timed queue holds a pending with that (switch, state, ms, callback).
C17_RemoveLeavesNoPending ==
    [][lastEv'.op = "remove_switch_handler" =>
          LET h == lastEv'.callback
              hs == HandlerSpec[h]
              entry == TimedSwitchHandler(h, hs.switch_name, hs.state, hs.ms)
          IN  \A b \in 1..Len(timed') : entry \notin Range(timed'[b].items)]_vars

\* C18: remove_switch_handler takes exactly one record out of the registry
\* bucket of (switch, state), the first with the given (ms, callback); the
\* other records keep their order, and nothing changes when none matches.
C18_RemoveTakesFirstMatchOnly ==
    [][lastEv'.op = "remove_switch_handler" =>
          LET h == lastEv'.callback
              hs == HandlerSpec[h]
              key == <<hs.switch_name, hs.state>>
          IN  registered' =
                 [registered EXCEPT
                     ![key] = RemoveFirst(@, RegisteredSwitch(hs.ms, h))]]_vars

\* C19: verify_switches fails fatally when the platform's read lacks the
\* number of a configured switch; otherwise it returns true iff the device
\* state of every configured switch before the call equals raw[number] XOR
\* invert.  In both cases the state store, the handler registry and the timed
\* queue are unchanged and no handler and no monitor is invoked.
C19_VerifyComparesWithHardware ==
    [][lastEv'.op = "verify_switches" =>
          LET switch_states == lastEv'.raw
          IN  /\ UNCHANGED <<switches, registered, timed, wake>>
              /\ lastEv'.fired = <<>>
              /\ lastEv'.mons = <<>>
              /\ IF \E s \in Switches : HwNumber[s] > Len(switch_states)
                 THEN lastEv'.outcome = "fatal"
                 ELSE lastEv'.outcome =
                         IF \A s \in Switches :
                               dev[s].state = Xor(switch_states[HwNumber[s]],
                                                  B2I(invert[s]))
                         THEN "ok" ELSE "mismatch"]_vars

\* the check of an inverted switch that has changed state finds a mismatch
C19_Witness ==
    /\ lastEv.op = "verify_switches"
    /\ lastEv.outcome = "mismatch"
    /\ invert["a"]
    /\ switches["a"].time # Sentinel
    /\ dev["a"].state # switches["a"].state

\* C20: process_switch with an unknown name is a fatal error that changes
\* nothing and calls nothing; process_switch_by_num with an unconfigured
\* number is not an error and does nothing but call every registered monitor
\* once, with the number as a string for the name.
C20_UnknownNameFatalUnknownNumberMonitored ==
    [][/\ (lastEv'.op = "process_switch" /\ lastEv'.sw \notin Switches) =>
             /\ lastEv'.outcome = "fatal"
             /\ UNCHANGED <<dev, switches, registered, timed, wake, retries, monitors>>
             /\ lastEv'.fired = <<>>
             /\ lastEv'.mons = <<>>
       /\ lastEv'.op = "process_switch_by_num" =>
             /\ lastEv'.outcome = "unconfigured"
             /\ UNCHANGED <<dev, switches, registered, timed, wake, retries>>
             /\ lastEv'.fired = <<>>
             /\ \A m \in Range(monitors) :
                   Observed(lastEv'.mons, m) =
                       <<MonitoredSwitchChange(ToString(UnknownNum), lastEv'.in)>>]_vars

\* The pending item watches switch name for the state opposite to state.
WatchesOpposite(item, name, state) ==
    item.switch_name = name /\ item.state = Xor(state, 1)

\* C21: right after an accepted transition of a switch into state s no bucket
\* of the timed queue holds a pending of that switch for s XOR 1, and the
\* other pendings that were in a bucket are still there, in their order, in
\* front of the pendings the transition added.
C21_AcceptedCancelsOpposite ==
    [][(Dispatching(lastEv') /\ lastEv'.outcome = "accepted") =>
          LET name == lastEv'.sw
              state == lastEv'.state
              Kept(item) == ~WatchesOpposite(item, name, state)
          IN  /\ \A b \in 1..Len(timed') : \A i \in 1..Len(timed'[b].items) :
                    Kept(timed'[b].items[i])
              /\ \A b \in 1..Len(timed) :
                    LET old == SelectSeq(timed[b].items, Kept)
                    IN  /\ timed'[b].key = timed[b].key
                        /\ Len(timed'[b].items) >= Len(old)
                        /\ SubSeq(timed'[b].items, 1, Len(old)) = old]_vars

\* C28: the recycle_clear_time of a switch changes only in a step that
\* accepts an activation (the store goes from 0 to 1); duplicates,
\* deactivations and deferred activations leave it as it is.
C28_RecycleClearOnlyOnAcceptedActivation ==
    [][\A sw \in Switches :
          dev'[sw].recycle_clear_time # dev[sw].recycle_clear_time =>
              (switches[sw].state = 0 /\ switches'[sw].state = 1)]_vars

\* C27: in every reachable state the logical state recorded on each switch
\* device equals the state the store records for that switch.
C27_DeviceStateEqualsStore ==
    \A sw \in Switches : dev[sw].state = switches[sw].state

\* The deadlines of the buckets that hold a pending.
Deadlines(t) == {t[b].key : b \in {i \in 1..Len(t) : t[i].items # <<>>}}

\* C22: between calls, when the timed queue holds a pending, a wake timer is
\* outstanding and set no later than the earliest deadline of a pending, also
\* after a drain in which a callback inserted a pending that is due before
\* the buckets that were already waiting.
C22_WakeNoLaterThanEarliestDeadline ==
    Deadlines(timed) # {} =>
        (wake # NoTimer /\ wake <= SetMin(Deadlines(timed)))

\* The step is an accepted transition of switch a into state 1.
EntersA1 ==
    /\ lastEv'.op = "process_switch"
    /\ lastEv'.sw = "a"
    /\ lastEv'.outcome = "accepted"
    /\ lastEv'.state = 1

\* The registrations of callback h among the positions ps of bucket.
RegsAt(bucket, ps, h) == Cardinality({i \in ps : bucket[i].callback = h})

\* The pendings of callback h in the timed queue t.
PendsOf(t, h) ==
    LET RECURSIVE Sum(_)
        Sum(i) == IF i = 0 THEN 0
                  ELSE RegsAt(t[i].items, 1..Len(t[i].items), h) + Sum(i - 1)
    IN  Sum(Len(t))

\* How many registrations of h a dispatch over bucket has to process when the
\* entry at position p removes one registration of h (the first in the
\* bucket) in its turn: those before p, and of those after p all but the one
\* that was removed.
DueAfterRemoval(bucket, p, h) ==
    LET before == RegsAt(bucket, 1..(p - 1), h)
        after == RegsAt(bucket, (p + 1)..Len(bucket), h)
    IN  IF before > 0 THEN before + after
        ELSE IF after > 0 THEN after - 1 ELSE 0

\* C23: while an accepted transition into (a, 1) is dispatched, a registration
\* that the handler h10, invoked earlier in the same dispatch, removed is not
\* invoked (h3, zero dwell) and not enqueued (h1, positive dwell), and every
\* registration still present at its turn is processed exactly once.
C23_RemovedByEarlierHandlerIsSkipped ==
    [][LET bucket == registered[<<"a", 1>>]
           ps == {i \in 1..Len(bucket) : bucket[i].callback = "h10"}
       IN  (EntersA1 /\ ps # {}) =>
              LET p == CHOOSE i \in ps : TRUE
              IN  /\ FiredCount(lastEv', "h3") = DueAfterRemoval(bucket, p, "h3")
                  /\ (RegsAt(bucket, 1..(p - 1), "h1") = 0 /\ PendsOf(timed, "h1") = 0)
                        => PendsOf(timed', "h1") = DueAfterRemoval(bucket, p, "h1")]_vars

\* C24: a handler that h11 adds for (a, 1) while the accepted transition into
\* (a, 1) is dispatched is not processed on account of that transition: the
\* added h3 (zero dwell) is not invoked in the dispatch, and the added h1
\* (positive dwell) gets no pending, so that h3 runs and h1 is enqueued in
\* the dispatch only for the registrations that were there when it began.
C24_AddedDuringDispatchWaitsForNextTransition ==
    [][LET bucket == registered[<<"a", 1>>]
           all == 1..Len(bucket)
       IN  (EntersA1 /\ RegsAt(bucket, all, "h11") > 0) =>
              /\ FiredCount(lastEv', "h3") = RegsAt(bucket, all, "h3")
              /\ PendsOf(timed, "h1") = 0 =>
                     PendsOf(timed', "h1") = RegsAt(bucket, all, "h1")]_vars

\* The callbacks of a sequence of registrations or pendings, in order.
Callbacks(entries) == [i \in 1..Len(entries) |-> entries[i].callback]

ZeroDwell(entry) == entry.ms = 0

\* The callbacks the step invoked from the bucket of deadline key (NoTimer:
\* invoked immediately by the dispatch), in the order of their invocation.
FiredFrom(ev, key) == Callbacks(SelectSeq(ev.fired, LAMBDA f : f.key = key))

\* C25: an accepted transition into (a, 1) invokes the zero-dwell handlers
\* registered for (a, 1) in the order of their registration, and a drain
\* invokes the pendings of each bucket that is due in the order in which they
\* were inserted into it, whatever add_switch_handler, remove_switch_handler
\* and transitions came before.
C25_RegistrationAndInsertionOrder ==
    [][/\ EntersA1 =>
             FiredFrom(lastEv', NoTimer) =
                Callbacks(SelectSeq(registered[<<"a", 1>>], ZeroDwell))
       /\ lastEv'.op = "_process_active_timed_switches" =>
             \A b \in 1..Len(timed) :
                timed[b].key <= now =>
                   FiredFrom(lastEv', timed[b].key) = Callbacks(timed[b].items)]_vars

\* Two different zero-dwell handlers have been invoked by one transition, or
\* two different pendings from one bucket by one drain.
C25_Witness ==
    \/ /\ lastEv.op = "process_switch"
       /\ Len(lastEv.fired) >= 2
       /\ lastEv.fired[1].callback # lastEv.fired[2].callback
       /\ lastEv.fired[1].key = NoTimer
       /\ lastEv.fired[2].key = NoTimer
    \/ /\ lastEv.op = "_process_active_timed_switches"
       /\ Len(lastEv.fired) >= 2
       /\ lastEv.fired[1].callback # lastEv.fired[2].callback
       /\ lastEv.fired[1].key = lastEv.fired[2].key

\* The pendings among items that watch switch name in state, in any spelling
\* of the name.
Watching(items, name, state) ==
    {i \in 1..Len(items) : Lower(items[i].switch_name) = name /\ items[i].state = state}

\* No bucket of t holds two pendings for state 1 of switch a.
OnePerBucket(t) == \A b \in 1..Len(t) : Cardinality(Watching(t[b].items, "a", 1)) <= 1

\* C26: the spelling of the switch name makes no difference for the pending
\* of a dwell handler.  With at most one pending for (a, 1) in each bucket,
\* remove_switch_handler for h13, registered and removed under the spelling
\* "A", leaves no pending of h13 in the timed queue, and an accepted
\* transition of a into state 0 leaves no pending for state 1 of a, whatever
\* spelling the pending carries.
C26_PendingsMatchedCaseInsensitively ==
    [][OnePerBucket(timed) =>
          /\ (lastEv'.op = "remove_switch_handler" /\ lastEv'.callback = "h13")
                => PendsOf(timed', "h13") = 0
          /\ (lastEv'.op = "process_switch" /\ lastEv'.sw = "a"
                /\ lastEv'.outcome = "accepted" /\ lastEv'.state = 0)
                => \A b \in 1..Len(timed') : Watching(timed'[b].items, "a", 1) = {}]_vars

====
